---------------------------- MODULE Spec2Model ----------------------------
(***************************************************************************)
(* A model of the competition-results extractor of the wrestling team app  *)
(* (server/services/pdfParser.ts, parsePDF).  Text is modelled as strings, *)
(* every regular expression of parsePDF as an operator that computes the   *)
(* match JavaScript computes (leftmost start, greedy quantifiers), and the *)
(* body of parsePDF as a program-counter machine, one action per statement *)
(* group or loop iteration.                                                *)
(***************************************************************************)
EXTENDS Integers, Sequences, FiniteSets, TLC

(***************************************************************************)
(* Bounds of the model.                                                    *)
(***************************************************************************)
\* longest document made of freely chosen corpus lines
MaxLines == 2
\* longest run of filler lines between two corpus lines
MaxPad == 9
\* first day (days since 1970-01-01) the clock of the host can show: 2024-12-31
FirstDay == 20088
\* number of days the clock can advance past FirstDay
MaxDays == 1

(***************************************************************************)
(* Characters and strings.                                                 *)
(***************************************************************************)
\* s[i] of JavaScript, 1-based here; "" past either end of the string
Ch(s, i) == IF i >= 1 /\ i <= Len(s) THEN SubSeq(s, i, i) ELSE ""

DigitS == "0123456789"
UpperS == "ABCDEFGHIJKLMNOPQRSTUVWXYZ"
LowerS == "abcdefghijklmnopqrstuvwxyz"

\* \d
Digit == {Ch(DigitS, k) : k \in 1..10}
\* [A-Z]
Upper == {Ch(UpperS, k) : k \in 1..26}
\* [a-z]
Lower == {Ch(LowerS, k) : k \in 1..26}
\* \s, and the characters String.prototype.trim removes
Space == {" ", "\t", "\r"}

\* the /i flag: letters compare by their lower-case form
ToLower(c) ==
  IF c \in Upper THEN Ch(LowerS, CHOOSE k \in 1..26 : Ch(UpperS, k) = c) ELSE c

SetMin(S) == CHOOSE x \in S : \A y \in S : x <= y
SetMax(S) == CHOOSE x \in S : \A y \in S : x >= y

\* the number of consecutive characters of s from position p on that are in C
RECURSIVE RunLen(_, _, _)
RunLen(s, p, C) == IF Ch(s, p) \in C THEN 1 + RunLen(s, p + 1, C) ELSE 0

\* What a greedy quantifier C{lo,hi} takes at p when the pattern goes on with
\* a character outside C: the whole run of C, which must count lo..hi
\* characters (giving characters back leaves one of C where the pattern
\* wants another).  -1: no match.
Whole(s, p, C, lo, hi) ==
  LET n == RunLen(s, p, C) IN IF n >= lo /\ n <= hi THEN n ELSE -1

\* What a greedy quantifier C{lo,hi} takes at p when it ends the pattern: as
\* much of the run as hi allows.  -1: no match.
Most(s, p, C, lo, hi) ==
  LET n == RunLen(s, p, C)
  IN  IF n < lo THEN -1 ELSE IF n > hi THEN hi ELSE n

\* the regex match array of JavaScript: <<m[0], m[1], ...>>; null is <<>>
Null == << >>

\* String.prototype.match without the g flag: the match at the leftmost
\* position where the pattern At(s, p) matches, or null
Leftmost(s, At(_, _)) ==
  LET ps == {p \in 1..Len(s) : At(s, p) # Null}
  IN  IF ps = {} THEN Null ELSE At(s, SetMin(ps))

\* the number the first n characters of a string of decimal digits denote
RECURSIVE ParseDigits(_, _)
ParseDigits(str, n) ==
  IF n = 0 THEN 0
  ELSE 10 * ParseDigits(str, n - 1)
       + (CHOOSE k \in 0..9 : Ch(DigitS, k + 1) = Ch(str, n))

\* parseInt of a string of decimal digits
ParseInt(str) == ParseDigits(str, Len(str))

\* String.prototype.split with a one-character separator: the pieces between
\* one occurrence of sep (or an end of s) and the next
Split(s, sep) ==
  LET cuts == {0, Len(s) + 1} \cup {k \in 1..Len(s) : Ch(s, k) = sep}
      Cut(m) == CHOOSE k \in cuts : Cardinality({c \in cuts : c < k}) = m
  IN  [m \in 1..(Cardinality(cuts) - 1) |->
         SubSeq(s, Cut(m - 1) + 1, Cut(m) - 1)]

\* String.prototype.trim
Trim(s) ==
  LET keep == {k \in 1..Len(s) : Ch(s, k) \notin Space}
  IN  IF keep = {} THEN "" ELSE SubSeq(s, SetMin(keep), SetMax(keep))

\* NonBlank that keeps every line
NonBlankAny(line) == TRUE

\* line => line.trim().length > 0
NonBlank(line) == Len(Trim(line)) > 0

\* text.split('\n').filter(line => line.trim().length > 0)
SplitLines(text) == SelectSeq(Split(text, "\n"), NonBlank)

\* Array.prototype.slice(0, n)
Slice0(ls, n) == SubSeq(ls, 1, IF Len(ls) < n THEN Len(ls) ELSE n)

(***************************************************************************)
(* The regular expressions of parsePDF.                                    *)
(***************************************************************************)
\* one alternative of the date pattern at p: \d{1,2} sep \d{1,2} sep \d{2,4}
DateAltAt(s, p, sep) ==
  LET a == Whole(s, p, Digit, 1, 2)
      b == Whole(s, p + a + 1, Digit, 1, 2)
      c == Most(s, p + a + b + 2, Digit, 2, 4)
  IN  IF /\ a # -1
         /\ Ch(s, p + a) = sep
         /\ b # -1
         /\ Ch(s, p + a + 1 + b) = sep
         /\ c # -1
      THEN <<SubSeq(s, p, p + a + b + c + 1)>>
      ELSE Null

\* /\d{1,2}\/\d{1,2}\/\d{2,4}|\d{1,2}-\d{1,2}-\d{2,4}/ at p
DateAt(s, p) ==
  IF DateAltAt(s, p, "/") # Null THEN DateAltAt(s, p, "/")
  ELSE DateAltAt(s, p, "-")

DateMatch(s) == Leftmost(s, DateAt)

\* WeightAt with the pattern /(\d{1,3})\s*(lbs?)?/i: one digit is enough and
\* the suffix is optional
WeightAtLoose(s, p) ==
  LET a == Most(s, p, Digit, 1, 3)
  IN  IF a # -1 THEN <<SubSeq(s, p, p + a - 1), SubSeq(s, p, p + a - 1)>>
      ELSE Null

\* /(\d{2,3})\s*lbs?/i at p
WeightAt(s, p) ==
  LET a == Whole(s, p, Digit, 2, 3)
      w == RunLen(s, p + a, Space)
      e == p + a + w + 2
      opt == IF ToLower(Ch(s, e)) = "s" THEN 1 ELSE 0
  IN  IF /\ a # -1
         /\ ToLower(Ch(s, p + a + w)) = "l"
         /\ ToLower(Ch(s, p + a + w + 1)) = "b"
      THEN <<SubSeq(s, p, e + opt - 1), SubSeq(s, p, p + a - 1)>>
      ELSE Null

WeightMatch(s) == Leftmost(s, WeightAt)

\* /([A-Z][a-z]+\s+[A-Z][a-z]+)/ at p
NameAt(s, p) ==
  LET a == RunLen(s, p + 1, Lower)
      w == RunLen(s, p + 1 + a, Space)
      b == RunLen(s, p + 2 + a + w, Lower)
  IN  IF /\ Ch(s, p) \in Upper
         /\ a >= 1
         /\ w >= 1
         /\ Ch(s, p + 1 + a + w) \in Upper
         /\ b >= 1
      THEN <<SubSeq(s, p, p + 1 + a + w + b), SubSeq(s, p, p + 1 + a + w + b)>>
      ELSE Null

NameMatch(s) == Leftmost(s, NameAt)

\* /(\d+)(st|nd|rd|th)/ at p
PlacementAt(s, p) ==
  LET a == RunLen(s, p, Digit)
      suffix == Ch(s, p + a) \o Ch(s, p + a + 1)
  IN  IF a >= 1 /\ suffix \in {"st", "nd", "rd", "th"}
      THEN <<SubSeq(s, p, p + a + 1), SubSeq(s, p, p + a - 1), suffix>>
      ELSE Null

PlacementMatch(s) == Leftmost(s, PlacementAt)

\* /(\d+)-(\d+)/ at p
RecordAt(s, p) ==
  LET a == RunLen(s, p, Digit)
      b == RunLen(s, p + a + 1, Digit)
  IN  IF a >= 1 /\ Ch(s, p + a) = "-" /\ b >= 1
      THEN <<SubSeq(s, p, p + a + b), SubSeq(s, p, p + a - 1),
             SubSeq(s, p + a + 1, p + a + b)>>
      ELSE Null

RecordMatch(s) == Leftmost(s, RecordAt)

\* /pin|fall/i at p
PinAt(s, p) ==
  LET c(k) == ToLower(Ch(s, p + k))
  IN  IF c(0) = "p" /\ c(1) = "i" /\ c(2) = "n"
        THEN <<SubSeq(s, p, p + 2)>>
      ELSE IF c(0) = "f" /\ c(1) = "a" /\ c(2) = "l" /\ c(3) = "l"
        THEN <<SubSeq(s, p, p + 3)>>
      ELSE Null

PinMatch(s) == Leftmost(s, PinAt)

\* /(\d{2,3})/ at p
NumberAt(s, p) ==
  LET a == Most(s, p, Digit, 2, 3)
  IN  IF a # -1 THEN <<SubSeq(s, p, p + a - 1), SubSeq(s, p, p + a - 1)>>
      ELSE Null

NumberMatch(s) == Leftmost(s, NumberAt)

(***************************************************************************)
(* new Date().toISOString().split('T')[0]                                  *)
(***************************************************************************)
\* the decimal digits of a natural number
RECURSIVE DigitStr(_)
DigitStr(n) ==
  IF n < 10 THEN Ch(DigitS, n + 1)
  ELSE DigitStr(n \div 10) \o Ch(DigitS, (n % 10) + 1)

\* String.prototype.padStart(width, "0")
RECURSIVE PadStart(_, _)
PadStart(str, width) ==
  IF Len(str) >= width THEN str ELSE PadStart("0" \o str, width)

\* year, month and day of the UTC day that is `day` days after 1970-01-01
CivilFromDays(day) ==
  LET z == day + 719468
      era == z \div 146097
      doe == z - era * 146097
      yoe == (doe - doe \div 1460 + doe \div 36524 - doe \div 146096) \div 365
      doy == doe - (365 * yoe + yoe \div 4 - yoe \div 100)
      mp == (5 * doy + 2) \div 153
      d == doy - (153 * mp + 2) \div 5 + 1
      m == IF mp < 10 THEN mp + 3 ELSE mp - 9
      y == yoe + era * 400 + (IF m <= 2 THEN 1 ELSE 0)
  IN  [y |-> y, m |-> m, d |-> d]

\* Date.prototype.toISOString of an instant of the given day (the model's
\* clock counts days; the time of day is left at midnight)
ToISOString(day) ==
  LET c == CivilFromDays(day)
  IN  PadStart(DigitStr(c.y), 4) \o "-" \o PadStart(DigitStr(c.m), 2) \o "-"
      \o PadStart(DigitStr(c.d), 2) \o "T00:00:00.000Z"

\* TodayISO without split('T')[0]: the whole timestamp
TodayTimestamp(day) == ToISOString(day)

\* new Date().toISOString().split('T')[0] when the clock shows `day`
TodayISO(day) == Split(ToISOString(day), "T")[1]

(***************************************************************************)
(* The documents the extractor is run on.                                  *)
(***************************************************************************)
\* lines of result sheets
Corpus ==
  { "Regional Duals",
    "152 lbs",
    "John Smith 5-2 1st pin",
    "John Smith 152",
    "Regional Duals 3/14/2024",
    "  ",
    "Tournament Sheet",
    "  John Smith 7 ",
    "Mike Jones 2024-12-31",
    "John Smith 0th 7 LB" }

\* a line no pattern of the extractor matches
Filler == "bout"

Fill(k) == [x \in 1..k |-> Filler]

\* documents of up to MaxLines corpus lines
FreeDocs == UNION {[1..n -> Corpus] : n \in 0..MaxLines}

\* documents of two corpus lines with a long run of filler lines between
PaddedDocs ==
  {<<h>> \o Fill(k) \o <<t>> :
     h \in Corpus, t \in Corpus, k \in (MaxPad - 2)..MaxPad}

\* result sheets of three lines: a header, a weight marker and a result; one
\* athlete on two lines of a window; names before and after a marker; blank
\* and padded lines; a result under the markers of two weight classes
Sheets ==
  { <<"Regional Duals", "152 lbs", "John Smith 5-2 1st pin">>,
    <<"152 lbs", "John Smith 5-2 1st pin", "John Smith 152">>,
    <<"152 lbs", "John Smith 152", "John Smith 5-2 1st pin">>,
    <<"John Smith 0th 7 LB", "152 lbs", "John Smith 152">>,
    <<"Mike Jones 2024-12-31", "152 lbs", "John Smith 152">>,
    <<"  ", "Tournament Sheet", "  John Smith 7 ">>,
    <<"152 lbs", "160 lbs", "John Smith 5-2 1st pin">> }

\* Array.prototype.join('\n'): the text the converter recovers from a document
RECURSIVE Join(_)
Join(ls) ==
  IF ls = << >> THEN ""
  ELSE IF Len(ls) = 1 THEN ls[1]
  ELSE ls[1] \o "\n" \o Join(Tail(ls))

Texts == {Join(ls) : ls \in FreeDocs \cup PaddedDocs \cup Sheets}

\* the lines a document of the model can hold
DocLines ==
  Corpus \cup {Filler, ""} \cup UNION {{ls[k] : k \in 1..Len(ls)} : ls \in Sheets}

\* line.match(pattern) for each pattern of parsePDF and each line a document
\* can hold, computed once
Found ==
  [l \in DocLines |->
     [date |-> DateMatch(l),
      weight |-> WeightMatch(l),
      name |-> NameMatch(l),
      placement |-> PlacementMatch(l),
      record |-> RecordMatch(l),
      pin |-> PinMatch(l),
      number |-> NumberMatch(l)]]

\* the days the clock of the host can show
ClockDays == FirstDay..(FirstDay + MaxDays)

\* the values an operation takes on a set of arguments, computed once
Tabulate(S, Op(_)) == [x \in S |-> Op(x)]

\* new Date().toISOString().split('T')[0] for each of them
Today == Tabulate(ClockDays, TodayISO)

(***************************************************************************)
(* The state.                                                              *)
(***************************************************************************)
\* the invocations of parsePDF, in the order they are made
Procs == {1, 2}

\* req.file.filename: the name the upload middleware stores upload p under
Filename(p) == IF p = 1 THEN "9f2c41ab" ELSE "07d3e6c5"

\* req.file.path: dest 'uploads/' and the stored name
StoredPath(p) == "uploads/" \o Filename(p)

\* the files of the upload directory
Paths == {StoredPath(p) : p \in Procs}

\* the file direct calls of parsePDF are made on
UploadPath == StoredPath(1)

VARIABLES
  fsOk,            \* fsOk[f]: readFileSync and the converter succeed on file f
  fsText,          \* fsText[f]: data.text the converter recovers from file f
  clock,           \* the day the last reading of the host clock showed
  pc,              \* pc[p]: where invocation p is
  filePath,        \* the argument of invocation p
  text,            \* the locals of invocation p ...
  lines,
  athletes,
  competitionName,
  date,
  i,
  j,
  weightClass,
  primaryOut,      \* athletes of p as the primary pass left them (history)
  ret,             \* the value the promise of p resolved with
  err,             \* the message of the Error the promise of p rejected with
  request,         \* request[p]: the competition upload request p, if any
  stage,           \* stage[p]: where the route is with request p
  response,        \* response[p]: what the route answered request p
  competitions,    \* the rows of the competitions table, oldest first
  teams,           \* teams[t]: the row of the teams table with id t
  athleteEmails,   \* athleteEmails[a]: how many athlete_emails rows athlete a has
  newsletters,     \* newsletters[n]: the row of the newsletters table with id n
  outbox,          \* the mails transporter.sendMail accepted, oldest first
  call,            \* call[r]: the request session r sent, if any
  at,              \* at[r]: where the server is with call r
  reply,           \* reply[r]: the response written to call r
  nextCalls,       \* nextCalls[r]: how often isAuthenticated called next for r
  newsletter,      \* the row updateNewsletter returned to the send route of r
  allEmails,       \* how many addresses sendNewsletter of r has collected
  athleteIx,       \* the athlete the loop of sendNewsletter of r is at
  emailCountData,  \* the email count the browser of session r has cached
  verdict          \* verdict[r]: what the verify callback passed to done

vars == <<fsOk, fsText, clock, pc, filePath, text, lines, athletes,
          competitionName, date, i, j, weightClass, primaryOut, ret, err,
          request, stage, response, competitions,
          teams, athleteEmails, newsletters, outbox, call, at, reply,
          nextCalls, newsletter, allEmails, athleteIx, emailCountData,
          verdict>>

routeVars == <<request, stage, response, competitions>>

appVars == <<teams, athleteEmails, newsletters, outbox, call, at, reply,
             nextCalls, newsletter, allEmails, athleteIx, emailCountData,
             verdict>>

locals == <<text, lines, athletes, competitionName, date, i, j, weightClass,
            primaryOut>>

\* an absent (undefined) optional field of an athlete record
Undefined == -1

DefaultName == "Wrestling Competition"
LookAhead == 10
DateScanLines == 10

NoResult ==
  [athletes |-> << >>, competitionName |-> "", date |-> "", results |-> << >>]

\* no request: parsePDF is called directly
NoFile ==
  [mimetype |-> "", originalname |-> "", size |-> 0, readable |-> FALSE,
   content |-> ""]
NoRequest == [file |-> NoFile, body |-> [note |-> ""], teamId |-> ""]
NoResponse == [status |-> 0, message |-> "", error |-> ""]

\* the users, teams, athletes and newsletters the database holds
UserIds == {"u1", "u2"}
TeamIds == {"t1", "t2"}
AthleteIds == {"a1", "a2", "a3"}
NewsletterIds == {"n1"}

\* req.isAuthenticated() is false: no user on the request
NoUser == ""

\* a null timestamp
NoDate == -1

\* the users table has an id and an email and no password column
UserRows ==
  { [id |-> "u1", email |-> "coach@eagles.org", password |-> ""],
    [id |-> "u2", email |-> "coach@hawks.org", password |-> ""] }

TeamRows ==
  [t \in TeamIds |->
     [id |-> t,
      primaryCoachId |-> IF t = "t1" THEN "u1" ELSE "u2",
      name |-> IF t = "t1" THEN "Eagles" ELSE "Hawks"]]

\* the athletes table, in the order a select returns its rows
AthleteRows ==
  << [id |-> "a1", teamId |-> "t1"],
     [id |-> "a2", teamId |-> "t1"],
     [id |-> "a3", teamId |-> "t2"] >>

\* a draft: sentAt is null and recipientCount has its default
NewsletterRows ==
  [n \in NewsletterIds |->
     [id |-> n, teamId |-> "t1", sentAt |-> NoDate, recipientCount |-> 0]]

\* what updateNewsletter returns when no row has the id: undefined
NoNewsletter == [id |-> "", teamId |-> "", sentAt |-> NoDate, recipientCount |-> 0]

NoCall ==
  [kind |-> "", user |-> NoUser, id |-> "", name |-> "", email |-> "",
   password |-> ""]
NoReply == [status |-> 0, message |-> "", error |-> "", teams |-> {}]
NoVerdict == [called |-> FALSE, error |-> "", user |-> "", message |-> ""]

\* no athlete has an email address
NoEmails == [a \in AthleteIds |-> 0]

\* the server and the browsers before any request
AppIdle ==
  /\ teams = TeamRows
  /\ newsletters = NewsletterRows
  /\ outbox = << >>
  /\ call = [r \in Procs |-> NoCall]
  /\ at = [r \in Procs |-> "none"]
  /\ reply = [r \in Procs |-> NoReply]
  /\ nextCalls = [r \in Procs |-> 0]
  /\ newsletter = [r \in Procs |-> NoNewsletter]
  /\ allEmails = [r \in Procs |-> 0]
  /\ athleteIx = [r \in Procs |-> 0]
  /\ emailCountData = [r \in Procs |-> Undefined]
  /\ verdict = [r \in Procs |-> NoVerdict]

\* the state before the first step of any invocation
InitLocals ==
  /\ AppIdle
  /\ clock = FirstDay
  /\ pc = [p \in Procs |-> "idle"]
  /\ filePath = [p \in Procs |-> ""]
  /\ text = [p \in Procs |-> ""]
  /\ lines = [p \in Procs |-> << >>]
  /\ athletes = [p \in Procs |-> << >>]
  /\ competitionName = [p \in Procs |-> ""]
  /\ date = [p \in Procs |-> ""]
  /\ i = [p \in Procs |-> 0]
  /\ j = [p \in Procs |-> 0]
  /\ weightClass = [p \in Procs |-> ""]
  /\ primaryOut = [p \in Procs |-> << >>]
  /\ ret = [p \in Procs |-> NoResult]
  /\ err = [p \in Procs |-> ""]
  /\ response = [p \in Procs |-> NoResponse]
  /\ competitions = << >>

\* direct calls of parsePDF on one file of the upload directory
Init ==
  /\ \E ok \in BOOLEAN :
       /\ fsOk = [f \in Paths |-> f = UploadPath /\ ok]
       /\ \E t \in (IF ok THEN Texts ELSE {""}) :
            fsText = [f \in Paths |-> IF f = UploadPath THEN t ELSE ""]
  /\ request = [p \in Procs |-> NoRequest]
  /\ stage = [p \in Procs |-> "none"]
  /\ athleteEmails = NoEmails
  /\ InitLocals

(***************************************************************************)
(* The pieces of parsePDF.                                                 *)
(***************************************************************************)
\* what readFileSync or the converter can throw
ReadErrors == {"ENOENT: no such file or directory", "Invalid PDF structure"}

\* NameOfCompetition without trim()
NameUntrimmed(ls) == IF Len(ls) > 0 THEN ls[1] ELSE ""

\* if (lines.length > 0) competitionName = lines[0].trim()
NameOfCompetition(ls) == IF Len(ls) > 0 THEN Trim(ls[1]) ELSE ""

\* DateLines without slice(0, 10): the date loop visits every line
DateLinesAll(ls) == ls

\* lines.slice(0, 10), the lines the date loop visits
DateLines(ls) == Slice0(ls, DateScanLines)

\* WindowEnd without Math.min(i + 10, ...): the loop runs to the last line
WindowEndAll(k, n) == n

\* Math.min(i + 10, lines.length), the bound of the lookahead loop
WindowEnd(k, n) == IF k + LookAhead < n THEN k + LookAhead ELSE n

\* AthleteData with the two groups of recordMatch exchanged
AthleteDataSwapped(resultLine, wc) ==
  LET nameMatch == Found[resultLine].name
      placementMatch == Found[resultLine].placement
      recordMatch == Found[resultLine].record
      pinMatch == Found[resultLine].pin
  IN  [name |-> nameMatch[2],
       weightClass |-> wc,
       placement |->
         IF placementMatch # Null THEN ParseInt(placementMatch[2])
         ELSE Undefined,
       wins |-> IF recordMatch # Null THEN ParseInt(recordMatch[3])
                ELSE Undefined,
       losses |-> IF recordMatch # Null THEN ParseInt(recordMatch[2])
                  ELSE Undefined,
       pins |-> IF pinMatch # Null THEN 1 ELSE 0,
       takedowns |-> 0]

\* AthleteData whose losses default to 0 when the line holds no win-loss pair
AthleteDataLossesZero(resultLine, wc) ==
  LET nameMatch == Found[resultLine].name
      placementMatch == Found[resultLine].placement
      recordMatch == Found[resultLine].record
      pinMatch == Found[resultLine].pin
  IN  [name |-> nameMatch[2],
       weightClass |-> wc,
       placement |->
         IF placementMatch # Null THEN ParseInt(placementMatch[2])
         ELSE Undefined,
       wins |-> IF recordMatch # Null THEN ParseInt(recordMatch[2])
                ELSE Undefined,
       losses |-> IF recordMatch # Null THEN ParseInt(recordMatch[3])
                  ELSE 0,
       pins |-> IF pinMatch # Null THEN 1 ELSE 0,
       takedowns |-> 0]

\* athleteData of the primary pass, built from one line of a window
AthleteData(resultLine, wc) ==
  LET nameMatch == Found[resultLine].name
      placementMatch == Found[resultLine].placement
      recordMatch == Found[resultLine].record
      pinMatch == Found[resultLine].pin
  IN  [name |-> nameMatch[2],
       weightClass |-> wc,
       placement |->
         IF placementMatch # Null THEN ParseInt(placementMatch[2])
         ELSE Undefined,
       wins |-> IF recordMatch # Null THEN ParseInt(recordMatch[2])
                ELSE Undefined,
       losses |-> IF recordMatch # Null THEN ParseInt(recordMatch[3])
                  ELSE Undefined,
       pins |-> IF pinMatch # Null THEN 1 ELSE 0,
       takedowns |-> 0]

\* Existing that compares the name alone
ExistingByName(ath, data) ==
  \E k \in 1..Len(ath) : ath[k].name = data.name

\* athletes.find(a => a.name === ... && a.weightClass === ...) finds one
Existing(ath, data) ==
  \E k \in 1..Len(ath) :
    ath[k].name = data.name /\ ath[k].weightClass = data.weightClass

\* WindowPush that overwrites the record found instead of keeping it
WindowPushKeepLast(ath, resultLine, wc) ==
  IF Found[resultLine].name # Null
    THEN IF ~Existing(ath, AthleteData(resultLine, wc))
           THEN Append(ath, AthleteData(resultLine, wc))
           ELSE [k \in 1..Len(ath) |->
                   IF /\ ath[k].name = AthleteData(resultLine, wc).name
                      /\ ath[k].weightClass = wc
                   THEN AthleteData(resultLine, wc) ELSE ath[k]]
    ELSE ath

\* athletes after the body of the lookahead loop ran on resultLine
WindowPush(ath, resultLine, wc) ==
  IF Found[resultLine].name # Null
    THEN IF ~Existing(ath, AthleteData(resultLine, wc))
           THEN Append(ath, AthleteData(resultLine, wc))
           ELSE ath
    ELSE ath

\* FallbackNeeded without its test: the fallback pass always runs
FallbackAlways(ath) == TRUE

\* if (athletes.length === 0): whether the fallback pass runs
FallbackNeeded(ath) == Len(ath) = 0

\* FallbackData without the " lbs" of the weight class
FallbackDataNoUnit(line) ==
  [name |-> Found[line].name[2],
   weightClass |-> Found[line].number[2],
   placement |-> Undefined,
   wins |-> Undefined,
   losses |-> Undefined,
   pins |-> Undefined,
   takedowns |-> Undefined]

\* the record the fallback pass pushes for a line
FallbackData(line) ==
  [name |-> Found[line].name[2],
   weightClass |-> Found[line].number[2] \o " lbs",
   placement |-> Undefined,
   wins |-> Undefined,
   losses |-> Undefined,
   pins |-> Undefined,
   takedowns |-> Undefined]

\* athletes after the body of the fallback loop ran on line
FallbackPush(ath, line) ==
  IF Found[line].name # Null /\ Found[line].number # Null
    THEN Append(ath, FallbackData(line))
    ELSE ath

\* DateOrToday without the date found in the text
AlwaysToday(d, now) == Today[now]

\* date || new Date().toISOString().split('T')[0]
DateOrToday(d, now) == IF d # "" THEN d ELSE Today[now]

\* Result without the default of competitionName
ResultNoDefault(ath, name, d, ls, now) ==
  [athletes |-> ath,
   competitionName |-> name,
   date |-> DateOrToday(d, now),
   results |-> ls]

\* the object parsePDF returns
Result(ath, name, d, ls, now) ==
  [athletes |-> ath,
   competitionName |-> IF name # "" THEN name ELSE DefaultName,
   date |-> DateOrToday(d, now),
   results |-> ls]

\* FailureMessage without the message of the caught error
FailureMessageBare(cause) == "Failed to parse PDF file"

\* the message of the Error the catch clause throws
FailureMessage(cause) == "Failed to parse PDF file: " \o cause

(***************************************************************************)
(* The actions: parsePDF, statement by statement.                          *)
(***************************************************************************)
Active(p) == pc[p] \notin {"idle", "done", "failed"}

\* parsePDF(filePath) is called; invocations are numbered in the order they
\* are made and one runs to completion before the next is made
Invoke(p) ==
  /\ UNCHANGED <<routeVars, appVars>>
  /\ pc[p] = "idle"
  /\ stage[p] = "none"
  /\ \A q \in Procs : ~Active(q) /\ (q < p => pc[q] # "idle")
  /\ pc' = [pc EXCEPT ![p] = "read"]
  /\ filePath' = [filePath EXCEPT ![p] = UploadPath]
  /\ UNCHANGED <<fsOk, fsText, clock, locals, ret, err>>

\* fs.readFileSync(filePath); await pdf(dataBuffer); text = data.text
ReadOk(p) ==
  /\ UNCHANGED <<routeVars, appVars>>
  /\ pc[p] = "read"
  /\ fsOk[filePath[p]]
  /\ text' = [text EXCEPT ![p] = fsText[filePath[p]]]
  /\ pc' = [pc EXCEPT ![p] = "split"]
  /\ UNCHANGED <<fsOk, fsText, clock, filePath, lines, athletes,
                 competitionName, date, i, j, weightClass, primaryOut, ret,
                 err>>

\* readFileSync or the converter throws; the catch clause rethrows
ReadFail(p) ==
  /\ UNCHANGED <<routeVars, appVars>>
  /\ pc[p] = "read"
  /\ ~fsOk[filePath[p]]
  /\ \E cause \in ReadErrors :
       err' = [err EXCEPT ![p] = FailureMessage(cause)]
  /\ pc' = [pc EXCEPT ![p] = "failed"]
  /\ UNCHANGED <<fsOk, fsText, clock, filePath, locals, ret>>

\* SplitStep with lines declared at module scope: one array for every
\* invocation
SplitStepShared(p) ==
  /\ UNCHANGED <<routeVars, appVars>>
  /\ pc[p] = "split"
  /\ lines' = [q \in Procs |-> SplitLines(text[p])]
  /\ athletes' = [athletes EXCEPT ![p] = << >>]
  /\ competitionName' =
       [competitionName EXCEPT ![p] = NameOfCompetition(lines'[p])]
  /\ date' = [date EXCEPT ![p] = ""]
  /\ i' = [i EXCEPT ![p] = 0]
  /\ pc' = [pc EXCEPT ![p] = "date"]
  /\ UNCHANGED <<fsOk, fsText, clock, filePath, text, j, weightClass,
                 primaryOut, ret, err>>

\* the split into lines, the declarations and the competition name
SplitStep(p) ==
  /\ UNCHANGED <<routeVars, appVars>>
  /\ pc[p] = "split"
  /\ lines' = [lines EXCEPT ![p] = SplitLines(text[p])]
  /\ athletes' = [athletes EXCEPT ![p] = << >>]
  /\ competitionName' =
       [competitionName EXCEPT ![p] = NameOfCompetition(lines'[p])]
  /\ date' = [date EXCEPT ![p] = ""]
  /\ i' = [i EXCEPT ![p] = 0]
  /\ pc' = [pc EXCEPT ![p] = "date"]
  /\ UNCHANGED <<fsOk, fsText, clock, filePath, text, j, weightClass,
                 primaryOut, ret, err>>

\* one iteration of the date loop, or its end; i is the iterator's position
DateStep(p) ==
  /\ UNCHANGED <<routeVars, appVars>>
  /\ pc[p] = "date"
  /\ IF i[p] < Len(DateLines(lines[p]))
       THEN LET dateMatch == Found[DateLines(lines[p])[i[p] + 1]].date
            IN  IF dateMatch # Null
                  THEN /\ date' = [date EXCEPT ![p] = dateMatch[1]]
                       /\ i' = [i EXCEPT ![p] = 0]
                       /\ pc' = [pc EXCEPT ![p] = "primary"]
                  ELSE /\ i' = [i EXCEPT ![p] = i[p] + 1]
                       /\ UNCHANGED <<date, pc>>
       ELSE /\ i' = [i EXCEPT ![p] = 0]
            /\ pc' = [pc EXCEPT ![p] = "primary"]
            /\ UNCHANGED date
  /\ UNCHANGED <<fsOk, fsText, clock, filePath, text, lines, athletes,
                 competitionName, j, weightClass, primaryOut, ret, err>>

\* one iteration of the outer loop of the primary pass, up to the test of
\* weightMatch, or the end of the loop
PrimaryStep(p) ==
  /\ UNCHANGED <<routeVars, appVars>>
  /\ pc[p] = "primary"
  /\ IF i[p] < Len(lines[p])
       THEN LET weightMatch == Found[lines[p][i[p] + 1]].weight
            IN  IF weightMatch # Null
                  THEN /\ weightClass' =
                            [weightClass EXCEPT ![p] = weightMatch[2] \o " lbs"]
                       /\ j' = [j EXCEPT ![p] = i[p] + 1]
                       /\ pc' = [pc EXCEPT ![p] = "window"]
                       /\ UNCHANGED i
                  ELSE /\ i' = [i EXCEPT ![p] = i[p] + 1]
                       /\ UNCHANGED <<weightClass, j, pc>>
       ELSE /\ pc' = [pc EXCEPT ![p] = "check"]
            /\ UNCHANGED <<weightClass, i, j>>
  /\ UNCHANGED <<fsOk, fsText, clock, filePath, text, lines, athletes,
                 competitionName, date, primaryOut, ret, err>>

\* WindowStep without j++
WindowStepNoAdvance(p) ==
  /\ UNCHANGED <<routeVars, appVars>>
  /\ pc[p] = "window"
  /\ IF j[p] < WindowEnd(i[p], Len(lines[p]))
       THEN /\ athletes' =
                 [athletes EXCEPT
                    ![p] = WindowPush(@, lines[p][j[p] + 1], weightClass[p])]
            /\ UNCHANGED <<i, j, pc>>
       ELSE /\ i' = [i EXCEPT ![p] = i[p] + 1]
            /\ pc' = [pc EXCEPT ![p] = "primary"]
            /\ UNCHANGED <<athletes, j>>
  /\ UNCHANGED <<fsOk, fsText, clock, filePath, text, lines, competitionName,
                 date, weightClass, primaryOut, ret, err>>

\* one iteration of the lookahead loop, or its end and i++
WindowStep(p) ==
  /\ UNCHANGED <<routeVars, appVars>>
  /\ pc[p] = "window"
  /\ IF j[p] < WindowEnd(i[p], Len(lines[p]))
       THEN /\ athletes' =
                 [athletes EXCEPT
                    ![p] = WindowPush(@, lines[p][j[p] + 1], weightClass[p])]
            /\ j' = [j EXCEPT ![p] = j[p] + 1]
            /\ UNCHANGED <<i, pc>>
       ELSE /\ i' = [i EXCEPT ![p] = i[p] + 1]
            /\ pc' = [pc EXCEPT ![p] = "primary"]
            /\ UNCHANGED <<athletes, j>>
  /\ UNCHANGED <<fsOk, fsText, clock, filePath, text, lines, competitionName,
                 date, weightClass, primaryOut, ret, err>>

\* if (athletes.length === 0)
CheckStep(p) ==
  /\ UNCHANGED <<routeVars, appVars>>
  /\ pc[p] = "check"
  /\ primaryOut' = [primaryOut EXCEPT ![p] = athletes[p]]
  /\ IF FallbackNeeded(athletes[p])
       THEN /\ i' = [i EXCEPT ![p] = 0]
            /\ pc' = [pc EXCEPT ![p] = "fallback"]
       ELSE /\ pc' = [pc EXCEPT ![p] = "return"]
            /\ UNCHANGED i
  /\ UNCHANGED <<fsOk, fsText, clock, filePath, text, lines, athletes,
                 competitionName, date, j, weightClass, ret, err>>

\* one iteration of the fallback loop, or its end; i is the iterator's position
FallbackStep(p) ==
  /\ UNCHANGED <<routeVars, appVars>>
  /\ pc[p] = "fallback"
  /\ IF i[p] < Len(lines[p])
       THEN /\ athletes' =
                 [athletes EXCEPT ![p] = FallbackPush(@, lines[p][i[p] + 1])]
            /\ i' = [i EXCEPT ![p] = i[p] + 1]
            /\ UNCHANGED pc
       ELSE /\ pc' = [pc EXCEPT ![p] = "return"]
            /\ UNCHANGED <<athletes, i>>
  /\ UNCHANGED <<fsOk, fsText, clock, filePath, text, lines, competitionName,
                 date, j, weightClass, primaryOut, ret, err>>

\* the return statement; by then the host clock shows a day not before the
\* one it showed last
Return(p) ==
  /\ UNCHANGED <<routeVars, appVars>>
  /\ pc[p] = "return"
  /\ \E now \in {day \in ClockDays : day >= clock} :
       /\ clock' = now
       /\ ret' = [ret EXCEPT
                    ![p] = Result(athletes[p], competitionName[p], date[p],
                                  lines[p], now)]
  /\ pc' = [pc EXCEPT ![p] = "done"]
  /\ UNCHANGED <<fsOk, fsText, filePath, locals, err>>

Next ==
  \E p \in Procs :
    \/ Invoke(p)
    \/ ReadOk(p)
    \/ ReadFail(p)
    \/ SplitStep(p)
    \/ DateStep(p)
    \/ PrimaryStep(p)
    \/ WindowStep(p)
    \/ CheckStep(p)
    \/ FallbackStep(p)
    \/ Return(p)

Spec == Init /\ [][Next]_vars

\* every invocation that can take a step eventually takes it
FairSpec == Spec /\ WF_vars(Next)

(***************************************************************************)
(* The competition upload route, POST /api/teams/:teamId/competitions, for *)
(* requests isAuthenticated has passed on.                                 *)
(***************************************************************************)
PdfMime == "application/pdf"

\* limits: { fileSize: 10 * 1024 * 1024 }
FileSizeLimit == 10 * 1024 * 1024

\* the first n characters of s in lower case
RECURSIVE LowerTo(_, _)
LowerTo(s, n) == IF n = 0 THEN "" ELSE LowerTo(s, n - 1) \o ToLower(Ch(s, n))

\* String.prototype.toLowerCase
ToLowerCase(s) == LowerTo(s, Len(s))

\* String.prototype.endsWith
EndsWith(s, suffix) ==
  /\ Len(s) >= Len(suffix)
  /\ SubSeq(s, Len(s) - Len(suffix) + 1, Len(s)) = suffix

\* fileFilter of upload: whether cb(null, true) is called
FileFilter(file) ==
  \/ file.mimetype = PdfMime
  \/ EndsWith(ToLowerCase(file.originalname), ".pdf")

\* the texts of the documents uploaded through the route
RouteTexts ==
  { Join(<<"Regional Duals", "152 lbs", "John Smith 5-2 1st pin">>),
    Join(<<"Tournament Sheet", Filler>>),
    "  " }

\* the file parts of the requests: documents the converter reads, a corrupt
\* one, files whose name and MIME type disagree, a text file, and files at
\* and over the size limit
Uploads ==
  {[mimetype |-> PdfMime, originalname |-> "results.pdf", size |-> 2048,
    readable |-> TRUE, content |-> t] : t \in RouteTexts}
  \cup
  { [mimetype |-> PdfMime, originalname |-> "results.pdf", size |-> 2048,
     readable |-> FALSE, content |-> ""],
    [mimetype |-> "text/plain", originalname |-> "Notes.PDF", size |-> 512,
     readable |-> FALSE, content |-> ""],
    [mimetype |-> "application/octet-stream", originalname |-> "results.pdf",
     size |-> 2048, readable |-> TRUE,
     content |-> Join(<<"Tournament Sheet", Filler>>)],
    [mimetype |-> "text/plain", originalname |-> "notes.txt", size |-> 512,
     readable |-> FALSE, content |-> ""],
    [mimetype |-> PdfMime, originalname |-> "scan", size |-> FileSizeLimit,
     readable |-> TRUE, content |-> "  "],
    [mimetype |-> PdfMime, originalname |-> "results.pdf",
     size |-> FileSizeLimit + 1, readable |-> TRUE, content |-> "  "] }

\* req.body with the fields of a competition, and one without a name
GoodBody == [name |-> "Regional Duals", date |-> "2025-01-04"]
NamelessBody == [date |-> "2025-01-04"]

Requests ==
  {[file |-> f, body |-> GoodBody, teamId |-> "team-1"] :
     f \in Uploads \cup {NoFile}}
  \cup
  {[file |-> f, body |-> NamelessBody, teamId |-> "team-1"] :
     f \in {u \in Uploads : u.originalname = "results.pdf" /\ u.size = 2048
                            /\ u.mimetype = PdfMime /\ u.content = "  "}}

\* the object handed to insertCompetitionSchema.parse
CompetitionData(p) ==
  [teamId |-> request[p].teamId,
   pdfUrl |-> "/uploads/" \o Filename(p),
   parsedData |-> ret[p]] @@ request[p].body

\* SchemaAccepts that also wants an athlete in parsedData
SchemaAcceptsAthletes(data) ==
  /\ {"teamId", "name", "date"} \subseteq DOMAIN data
  /\ Len(data.parsedData.athletes) > 0

\* insertCompetitionSchema.parse does not throw: the columns that are notNull
\* and not omitted are there
SchemaAccepts(data) == {"teamId", "name", "date"} \subseteq DOMAIN data

\* storage.createCompetition: the row the insert returns
NewCompetition(data) ==
  [id |-> Len(competitions) + 1,
   teamId |-> data.teamId,
   name |-> data.name,
   date |-> data.date,
   pdfUrl |-> data.pdfUrl,
   parsedData |-> data.parsedData]

Respond(p, status, message, error) ==
  /\ response' = [response EXCEPT
                    ![p] = [status |-> status, message |-> message,
                            error |-> error]]
  /\ stage' = [stage EXCEPT ![p] = "responded"]

\* upload.single('pdf'): the filter, the size limit and the store; an error
\* of the middleware ends the request before the handler
Upload(p) ==
  /\ stage[p] = "received"
  /\ LET file == request[p].file
     IN  IF file = NoFile
           THEN /\ stage' = [stage EXCEPT ![p] = "handler"]
                /\ UNCHANGED <<fsOk, fsText, response>>
         ELSE IF ~FileFilter(file)
           THEN /\ Respond(p, 500, "Only PDF files are allowed", "")
                /\ UNCHANGED <<fsOk, fsText>>
         ELSE IF file.size > FileSizeLimit
           THEN /\ Respond(p, 500, "File too large", "")
                /\ UNCHANGED <<fsOk, fsText>>
         ELSE /\ fsOk' = [fsOk EXCEPT ![StoredPath(p)] = file.readable]
              /\ fsText' = [fsText EXCEPT ![StoredPath(p)] = file.content]
              /\ stage' = [stage EXCEPT ![p] = "handler"]
              /\ UNCHANGED response
  /\ UNCHANGED appVars
  /\ UNCHANGED <<clock, pc, filePath, locals, ret, err, request, competitions>>

\* the handler up to await parsePDF(req.file.path)
Handler(p) ==
  /\ stage[p] = "handler"
  /\ IF request[p].file = NoFile
       THEN /\ Respond(p, 400, "No PDF file uploaded", "")
            /\ UNCHANGED <<pc, filePath>>
       ELSE /\ pc' = [pc EXCEPT ![p] = "read"]
            /\ filePath' = [filePath EXCEPT ![p] = StoredPath(p)]
            /\ stage' = [stage EXCEPT ![p] = "parsing"]
            /\ UNCHANGED response
  /\ UNCHANGED appVars
  /\ UNCHANGED <<fsOk, fsText, clock, locals, ret, err, request, competitions>>

\* parsePDF resolved: validate, create the competition, answer with it; a
\* validation error is caught and answered
CreateStep(p) ==
  /\ stage[p] = "parsing"
  /\ pc[p] = "done"
  /\ IF SchemaAccepts(CompetitionData(p))
       THEN /\ competitions' =
                 Append(competitions, NewCompetition(CompetitionData(p)))
            /\ Respond(p, 200, "", "")
       ELSE /\ Respond(p, 400, "Failed to create competition", "Required")
            /\ UNCHANGED competitions
  /\ UNCHANGED appVars
  /\ UNCHANGED <<fsOk, fsText, clock, pc, filePath, locals, ret, err, request>>

\* parsePDF rejected: the catch clause of the handler answers
CatchStep(p) ==
  /\ stage[p] = "parsing"
  /\ pc[p] = "failed"
  /\ Respond(p, 400, "Failed to create competition", err[p])
  /\ UNCHANGED appVars
  /\ UNCHANGED <<fsOk, fsText, clock, pc, filePath, locals, ret, err, request,
                 competitions>>

\* two requests arrive; nothing is in the upload directory yet
RouteInit ==
  /\ fsOk = [f \in Paths |-> FALSE]
  /\ fsText = [f \in Paths |-> ""]
  /\ request \in [Procs -> Requests]
  /\ stage = [p \in Procs |-> "received"]
  /\ athleteEmails = NoEmails
  /\ InitLocals

RouteNext ==
  \E p \in Procs :
    \/ Upload(p)
    \/ Handler(p)
    \/ ReadOk(p)
    \/ ReadFail(p)
    \/ SplitStep(p)
    \/ DateStep(p)
    \/ PrimaryStep(p)
    \/ WindowStep(p)
    \/ CheckStep(p)
    \/ FallbackStep(p)
    \/ Return(p)
    \/ CreateStep(p)
    \/ CatchStep(p)

\* the route serving two requests, every interleaving of their steps
RouteSpec == RouteInit /\ [][RouteNext]_vars

(***************************************************************************)
(* The server: login, the authentication guard, teams, emails and          *)
(* newsletters, and the email page of the browser.                         *)
(***************************************************************************)
\* the most emails of a team the email page lets through
EmailLimit == 256

\* the built-in account of the local strategy
TestEmail == "test@g.com"
TestPassword == "asdf123"
TestUserId == "test-user-id"

\* bcrypt.hash(password, 10), up to the salt
BcryptHash(password) == "$2b$10$" \o password

\* bcrypt.compare(password, hash)
BcryptCompare(password, hash) == BcryptHash(password) = hash

\* storage.getUserByEmail: the rows with the email (email is unique)
GetUserByEmail(email) == {u \in UserRows : u.email = email}

\* done(error, user, info): user "" stands for false
DoneWith(error, user, message) ==
  [called |-> TRUE, error |-> error, user |-> user, message |-> message]

\* the verify callback of the local strategy; dbOk: the select succeeds
Verify(email, password, dbOk) ==
  IF email = TestEmail /\ password = TestPassword
    THEN DoneWith("", TestUserId, "")
  ELSE IF ~dbOk THEN DoneWith("connection refused", "", "")
  ELSE IF GetUserByEmail(email) = {}
    THEN DoneWith("", "", "Incorrect email.")
  ELSE LET user == CHOOSE u \in GetUserByEmail(email) : TRUE
       IN  IF user.password = ""
             THEN DoneWith("", "", "Incorrect password.")
           ELSE IF ~BcryptCompare(password, user.password)
             THEN DoneWith("", "", "Incorrect password.")
           ELSE DoneWith("", user.id, "")

\* IsAuthenticated with next() outside the test: every request goes on
IsAuthenticatedAlwaysNext(req) ==
  IF req.user # NoUser THEN [next |-> 1, status |-> 0]
  ELSE [next |-> 1, status |-> 401]

\* the middleware: how often it calls next, and the status it answers with
\* (0: it writes no response)
IsAuthenticated(req) ==
  IF req.user # NoUser THEN [next |-> 1, status |-> 0]
  ELSE [next |-> 0, status |-> 401]

\* storage.getTeam: the rows with the id
GetTeam(id) == {teams[t] : t \in {x \in TeamIds : x = id}}

\* storage.getTeamsByCoach
GetTeamsByCoach(coachId) ==
  {teams[t] : t \in {x \in TeamIds : teams[x].primaryCoachId = coachId}}

\* storage.updateTeam(id, { name }): the table afterwards
UpdateTeam(id, name) ==
  [t \in TeamIds |-> IF t = id THEN [teams[t] EXCEPT !.name = name]
                     ELSE teams[t]]

\* storage.getAthletesByTeam
GetAthletesByTeam(teamId) ==
  LET InTeam(a) == a.teamId = teamId
  IN  SelectSeq(AthleteRows, InTeam)

RECURSIVE CountEmails(_, _)
CountEmails(rows, emails) ==
  IF rows = << >> THEN 0
  ELSE emails[Head(rows).id] + CountEmails(Tail(rows), emails)

\* storage.getTeamEmailCount: the email rows joined to the athletes of a team
GetTeamEmailCount(teamId) ==
  CountEmails(GetAthletesByTeam(teamId), athleteEmails)

\* storage.addAthleteEmail: the table afterwards
AddAthleteEmail(athleteId) == [athleteEmails EXCEPT ![athleteId] = @ + 1]

\* storage.updateNewsletter(id, { sentAt }): the table afterwards
UpdateSentAt(id, now) ==
  [n \in NewsletterIds |->
     IF n = id THEN [newsletters[n] EXCEPT !.sentAt = now]
     ELSE newsletters[n]]

\* storage.updateNewsletter(id, { recipientCount }): the table afterwards
UpdateRecipientCount(id, count) ==
  [n \in NewsletterIds |->
     IF n = id THEN [newsletters[n] EXCEPT !.recipientCount = count]
     ELSE newsletters[n]]

\* getTeamStats(teamId).newslettersSent
NewslettersSent(teamId) ==
  Cardinality({n \in NewsletterIds :
                 /\ newsletters[n].teamId = teamId
                 /\ newsletters[n].sentAt # NoDate})

\* NoAddresses without its test: a newsletter goes out to nobody
NoAddressesNever(count) == FALSE

\* allEmails.length === 0
NoAddresses(count) == count = 0

\* the message of the Error sendNewsletter throws
SendFailure(message) == "Failed to send newsletter: " \o message

\* the team the email page shows
CurrentTeamId == "t1"

\* the requests a session sends other than through the email form
Calls ==
  {[NoCall EXCEPT !.kind = "getTeam", !.user = u, !.id = t] :
     u \in UserIds \cup {NoUser}, t \in TeamIds \cup {"t9"}}
  \cup
  {[NoCall EXCEPT !.kind = "putTeam", !.user = u, !.id = t,
                  !.name = "Team of " \o u] :
     u \in UserIds \cup {NoUser}, t \in TeamIds}
  \cup
  {[NoCall EXCEPT !.kind = "listTeams", !.user = u] :
     u \in UserIds \cup {NoUser}}
  \cup
  {[NoCall EXCEPT !.kind = "send", !.user = u, !.id = n] :
     u \in {"u1", NoUser}, n \in NewsletterIds \cup {"n9"}}
  \cup
  {[NoCall EXCEPT !.kind = "login", !.email = e, !.password = w] :
     e \in {TestEmail, "coach@eagles.org", "nobody@eagles.org"},
     w \in {TestPassword, "wrestle99"}}

\* the routes isAuthenticated guards
Guarded == {"getTeam", "putTeam", "listTeams", "send", "addEmail"}

\* what a request leaves alone: the extractor, the upload route
idle == <<fsOk, fsText, clock, pc, filePath, locals, ret, err, routeVars>>

\* res.status(status).json({ message, error }) ends request r
Answer(r, status, message, error, rows) ==
  /\ reply' = [reply EXCEPT ![r] = [status |-> status, message |-> message,
                                    error |-> error, teams |-> rows]]
  /\ at' = [at EXCEPT ![r] = "responded"]

\* session r sends a request
Receive(r) ==
  /\ at[r] = "none"
  /\ \E c \in Calls :
       /\ call' = [call EXCEPT ![r] = c]
       /\ at' = [at EXCEPT ![r] = IF c.kind = "login" THEN "verify"
                                  ELSE "auth"]
  /\ UNCHANGED <<idle, teams, athleteEmails, newsletters, outbox, reply,
                 nextCalls, newsletter, allEmails, athleteIx, emailCountData,
                 verdict>>

\* the browser of session r gets the email count of the team and caches it
FetchCount(r) ==
  /\ at[r] \in {"none", "responded"}
  /\ emailCountData[r] # GetTeamEmailCount(CurrentTeamId)
  /\ emailCountData' =
       [emailCountData EXCEPT ![r] = GetTeamEmailCount(CurrentTeamId)]
  /\ UNCHANGED <<idle, teams, athleteEmails, newsletters, outbox, call, at,
                 reply, nextCalls, newsletter, allEmails, athleteIx, verdict>>

\* handleSubmit of the email form: the cached count is under the limit and
\* the request goes out
HandleSubmit(r) ==
  /\ at[r] = "none"
  /\ LET emailCount == IF emailCountData[r] = Undefined THEN 0
                       ELSE emailCountData[r]
     IN  ~(emailCount >= EmailLimit)
  /\ \E a \in {"a1", "a2"}, u \in {"u1", NoUser} :
       call' = [call EXCEPT ![r] =
                  [NoCall EXCEPT !.kind = "addEmail", !.user = u, !.id = a,
                                 !.email = "parent@home.org"]]
  /\ at' = [at EXCEPT ![r] = "auth"]
  /\ UNCHANGED <<idle, teams, athleteEmails, newsletters, outbox, reply,
                 nextCalls, newsletter, allEmails, athleteIx, emailCountData,
                 verdict>>

\* the verify callback runs on a login request
VerifyStep(r) ==
  /\ at[r] = "verify"
  /\ \E dbOk \in BOOLEAN :
       verdict' = [verdict EXCEPT ![r] =
                     Verify(call[r].email, call[r].password, dbOk)]
  /\ at' = [at EXCEPT ![r] = "responded"]
  /\ UNCHANGED <<idle, teams, athleteEmails, newsletters, outbox, call,
                 reply, nextCalls, newsletter, allEmails, athleteIx,
                 emailCountData>>

\* isAuthenticated runs on a request to a guarded route
Authenticate(r) ==
  /\ at[r] = "auth"
  /\ LET out == IsAuthenticated(call[r])
     IN  /\ nextCalls' = [nextCalls EXCEPT ![r] = @ + out.next]
         /\ reply' = [reply EXCEPT ![r] =
                        IF out.status # 0
                          THEN [NoReply EXCEPT !.status = out.status,
                                               !.message = "Unauthorized"]
                        ELSE @]
         /\ at' = [at EXCEPT ![r] = IF out.next > 0 THEN "handler"
                                    ELSE "responded"]
  /\ UNCHANGED <<idle, teams, athleteEmails, newsletters, outbox, call,
                 newsletter, allEmails, athleteIx, emailCountData, verdict>>

\* GET /api/teams
ListTeamsRoute(r) ==
  /\ at[r] = "handler" /\ call[r].kind = "listTeams"
  /\ Answer(r, 200, "", "", GetTeamsByCoach(call[r].user))
  /\ UNCHANGED <<idle, teams, athleteEmails, newsletters, outbox, call,
                 nextCalls, newsletter, allEmails, athleteIx, emailCountData,
                 verdict>>

\* GET /api/teams/:id
GetTeamRoute(r) ==
  /\ at[r] = "handler" /\ call[r].kind = "getTeam"
  /\ IF GetTeam(call[r].id) = {}
       THEN Answer(r, 404, "Team not found", "", {})
       ELSE Answer(r, 200, "", "", GetTeam(call[r].id))
  /\ UNCHANGED <<idle, teams, athleteEmails, newsletters, outbox, call,
                 nextCalls, newsletter, allEmails, athleteIx, emailCountData,
                 verdict>>

\* PUT /api/teams/:id
PutTeamRoute(r) ==
  /\ at[r] = "handler" /\ call[r].kind = "putTeam"
  /\ teams' = UpdateTeam(call[r].id, call[r].name)
  /\ Answer(r, 200, "", "", {teams'[t] : t \in {x \in TeamIds : x = call[r].id}})
  /\ UNCHANGED <<idle, athleteEmails, newsletters, outbox, call, nextCalls,
                 newsletter, allEmails, athleteIx, emailCountData, verdict>>

\* POST /api/athletes/:athleteId/emails
AddEmailRoute(r) ==
  /\ at[r] = "handler" /\ call[r].kind = "addEmail"
  /\ athleteEmails' = AddAthleteEmail(call[r].id)
  /\ Answer(r, 200, "", "", {})
  /\ UNCHANGED <<idle, teams, newsletters, outbox, call, nextCalls,
                 newsletter, allEmails, athleteIx, emailCountData, verdict>>

\* POST /api/newsletters/:id/send: the update that stamps sentAt
SendRoute(r) ==
  /\ at[r] = "handler" /\ call[r].kind = "send"
  /\ newsletters' = UpdateSentAt(call[r].id, clock)
  /\ newsletter' = [newsletter EXCEPT ![r] =
                      IF call[r].id \in NewsletterIds
                        THEN newsletters'[call[r].id]
                      ELSE NoNewsletter]
  /\ at' = [at EXCEPT ![r] = "sendNewsletter"]
  /\ UNCHANGED <<idle, teams, athleteEmails, outbox, call, reply, nextCalls,
                 allEmails, athleteIx, emailCountData, verdict>>

\* sendNewsletter throws and the route answers 500
SendFails(r, message) ==
  Answer(r, 500, "Failed to send newsletter", SendFailure(message), {})

\* sendNewsletter up to the loop over the athletes of the team
SendNewsletterStart(r) ==
  /\ at[r] = "sendNewsletter"
  /\ IF newsletter[r] = NoNewsletter
       THEN /\ SendFails(r, "Cannot read properties of undefined")
            /\ UNCHANGED <<allEmails, athleteIx>>
     ELSE IF GetTeam(newsletter[r].teamId) = {}
       THEN /\ SendFails(r, "Team not found")
            /\ UNCHANGED <<allEmails, athleteIx>>
     ELSE /\ allEmails' = [allEmails EXCEPT ![r] = 0]
          /\ athleteIx' = [athleteIx EXCEPT ![r] = 1]
          /\ at' = [at EXCEPT ![r] = "emails"]
          /\ UNCHANGED reply
  /\ UNCHANGED <<idle, teams, athleteEmails, newsletters, outbox, call,
                 nextCalls, newsletter, emailCountData, verdict>>

\* one turn of the loop: the emails of one athlete; after the last athlete
\* the test of the list and the call of the mailer
EmailsStep(r) ==
  /\ at[r] = "emails"
  /\ LET rows == GetAthletesByTeam(newsletter[r].teamId)
         count == allEmails[r] + athleteEmails[rows[athleteIx[r]].id]
     IN  /\ allEmails' = [allEmails EXCEPT ![r] = count]
         /\ athleteIx' = [athleteIx EXCEPT ![r] = @ + 1]
         /\ IF athleteIx[r] < Len(rows)
              THEN UNCHANGED <<at, reply>>
            ELSE IF NoAddresses(count)
              THEN SendFails(r, "No email addresses found for this team")
            ELSE /\ at' = [at EXCEPT ![r] = "mail"]
                 /\ UNCHANGED reply
  /\ UNCHANGED <<idle, teams, athleteEmails, newsletters, outbox, call,
                 nextCalls, newsletter, emailCountData, verdict>>

\* transporter.sendMail settles: the mailer took the mail or refused
MailStep(r) ==
  /\ at[r] = "mail"
  /\ \E ok \in BOOLEAN :
       IF ok
         THEN /\ outbox' = Append(outbox, [id |-> newsletter[r].id,
                                           bcc |-> allEmails[r], by |-> r])
              /\ at' = [at EXCEPT ![r] = "count"]
              /\ UNCHANGED reply
       ELSE /\ SendFails(r, "Connection timeout")
            /\ UNCHANGED outbox
  /\ UNCHANGED <<idle, teams, athleteEmails, newsletters, call, nextCalls,
                 newsletter, allEmails, athleteIx, emailCountData, verdict>>

\* the update that writes recipientCount, and the answer of the route
CountStep(r) ==
  /\ at[r] = "count"
  /\ newsletters' = UpdateRecipientCount(newsletter[r].id, allEmails[r])
  /\ Answer(r, 200, "Newsletter sent successfully", "", {})
  /\ UNCHANGED <<idle, teams, athleteEmails, outbox, call, nextCalls,
                 newsletter, allEmails, athleteIx, emailCountData, verdict>>

\* two sessions; the emails the athletes of the page's team have so far
AppInit ==
  /\ fsOk = [f \in Paths |-> FALSE]
  /\ fsText = [f \in Paths |-> ""]
  /\ request = [p \in Procs |-> NoRequest]
  /\ stage = [p \in Procs |-> "none"]
  /\ InitLocals
  /\ \E m \in {0, EmailLimit - 1}, n \in {0, 1} :
       athleteEmails = [a \in AthleteIds |->
                          IF a = "a1" THEN m ELSE IF a = "a2" THEN n ELSE 1]

AppNext ==
  \E r \in Procs :
    \/ Receive(r)
    \/ FetchCount(r)
    \/ HandleSubmit(r)
    \/ VerifyStep(r)
    \/ Authenticate(r)
    \/ ListTeamsRoute(r)
    \/ GetTeamRoute(r)
    \/ PutTeamRoute(r)
    \/ AddEmailRoute(r)
    \/ SendRoute(r)
    \/ SendNewsletterStart(r)
    \/ EmailsStep(r)
    \/ MailStep(r)
    \/ CountStep(r)

\* the server with two sessions, every interleaving of their steps
AppSpec == AppInit /\ [][AppNext]_vars

(***************************************************************************)
(* Properties.                                                             *)
(***************************************************************************)
Done(p) == pc[p] = "done"

\* the primary pass of p is over
PrimaryOver(p) == pc[p] \in {"fallback", "return", "done"}

SameKey(a, b) == a.name = b.name /\ a.weightClass = b.weightClass

\* the ISO dates the clock has been able to show so far
Todays == {TodayISO(d) : d \in FirstDay..clock}

\* YYYY-MM-DD with a month 01..12 and a day 01..31
IsISODate(s) ==
  /\ Len(s) = 10
  /\ \A k \in {1, 2, 3, 4, 6, 7, 9, 10} : Ch(s, k) \in Digit
  /\ Ch(s, 5) = "-" /\ Ch(s, 8) = "-"
  /\ ParseInt(SubSeq(s, 6, 7)) \in 1..12
  /\ ParseInt(SubSeq(s, 9, 10)) \in 1..31

\* every match of a pattern in a line, whatever its position
AllMatches(s, At(_, _)) ==
  {At(s, p) : p \in {q \in 1..Len(s) : At(s, q) # Null}}

\* a maximal run of one to three digits that starts at p
StandaloneAt(s, p) ==
  IF /\ Ch(s, p) \in Digit
     /\ Ch(s, p - 1) \notin Digit
     /\ RunLen(s, p, Digit) <= 3
  THEN <<SubSeq(s, p, p + RunLen(s, p, Digit) - 1)>>
  ELSE Null

\* the standalone numbers of one to three digits of each line
Standalone == [l \in DocLines |-> AllMatches(l, StandaloneAt)]

\* the positions (from 1) of the lines the date loop visits that hold a date
DatedLines(ls) ==
  {k \in 1..Len(ls) : k <= DateScanLines /\ Found[ls[k]].date # Null}

\* the pairs <<k, m>> (from 1): line k holds a weight marker, line m lies in
\* the lookahead window of k and holds a name
NamedPairs(ls) ==
  LET markers == {k \in 1..Len(ls) : Found[ls[k]].weight # Null}
      named == {m \in 1..Len(ls) : Found[ls[m]].name # Null}
  IN  {q \in markers \X named : q[2] > q[1] /\ q[2] < q[1] + LookAhead}

\* the order in which the primary pass visits pairs
Before(q, r) == q[1] < r[1] \/ (q[1] = r[1] /\ q[2] < r[2])

\* the record whose fields all come from line q[2] and marker q[1]
RecordOfPair(ls, q) ==
  LET f == Found[ls[q[2]]]
  IN  [name |-> f.name[2],
       weightClass |-> Found[ls[q[1]]].weight[2] \o " lbs",
       placement |-> IF f.placement # Null THEN ParseInt(f.placement[2])
                     ELSE Undefined,
       wins |-> IF f.record # Null THEN ParseInt(f.record[2]) ELSE Undefined,
       losses |-> IF f.record # Null THEN ParseInt(f.record[3]) ELSE Undefined,
       pins |-> IF f.pin # Null THEN 1 ELSE 0,
       takedowns |-> 0]

InSeq(x, sq) == \E k \in 1..Len(sq) : sq[k] = x

\* one record, name and weight class only, per line with a name and a number
RECURSIVE FallbackExpected(_)
FallbackExpected(ls) ==
  IF ls = << >> THEN << >>
  ELSE (IF Found[Head(ls)].name # Null /\ Found[Head(ls)].number # Null
          THEN <<[name |-> Found[Head(ls)].name[2],
                  weightClass |-> Found[Head(ls)].number[2] \o " lbs",
                  placement |-> Undefined, wins |-> Undefined,
                  losses |-> Undefined, pins |-> Undefined,
                  takedowns |-> Undefined]>>
          ELSE << >>)
       \o FallbackExpected(Tail(ls))

\* the lines of the text that are not blank, as the text has them
NonBlankRaw(p) ==
  LET raw == Split(text[p], "\n")
      HasInk(l) == \E k \in 1..Len(l) : Ch(l, k) \notin Space
  IN  SelectSeq(raw, HasInk)

\* C1: the athletes of every result hold no two entries with the same
\* (name, weightClass), whichever pass produced them.
C1_NoDuplicateAthletes ==
  \A p \in Procs :
    Done(p) =>
      \A a, b \in 1..Len(ret[p].athletes) :
        a < b => ~SameKey(ret[p].athletes[a], ret[p].athletes[b])

\* C2: once the text is read the extraction never fails, and a text with no
\* non-blank line gives the default name, today's date, no athletes and no
\* raw lines.
C2_NeverRaisesOnText ==
  \A p \in Procs :
    /\ pc[p] = "failed" => ~fsOk[filePath[p]] /\ text[p] = ""
    /\ Done(p) /\ NonBlankRaw(p) = << >> =>
         /\ ret[p].competitionName = "Wrestling Competition"
         /\ ret[p].date \in Todays
         /\ IsISODate(ret[p].date)
         /\ ret[p].athletes = << >>
         /\ ret[p].results = << >>

C2_Witness ==
  \E p \in Procs : Done(p) /\ Len(text[p]) > 0 /\ NonBlankRaw(p) = << >>

\* C3: the fallback pass runs only after a primary pass that produced no
\* record; when the primary pass produced one, the result holds exactly the
\* records of the primary pass.
C3_FallbackOnlyOnZero ==
  \A p \in Procs :
    /\ pc[p] = "fallback" => primaryOut[p] = << >>
    /\ PrimaryOver(p) /\ Len(primaryOut[p]) >= 1 => athletes[p] = primaryOut[p]
    /\ Done(p) /\ Len(primaryOut[p]) >= 1 => ret[p].athletes = primaryOut[p]

C3_Witness ==
  \E p \in Procs :
    /\ Done(p)
    /\ Len(primaryOut[p]) >= 1
    /\ \E k \in 1..Len(lines[p]) : FallbackPush(<< >>, lines[p][k]) # << >>

\* C4 as claimed: two invocations on the same text return results equal in
\* every field.
C4_Idempotent == Done(1) /\ Done(2) => ret[1] = ret[2]

\* C4 as amended: two invocations on the same text return the same
\* competitionName, athletes and raw lines, and the same date when the text
\* holds a date; otherwise each returns the date of the day it ran.
C4_IdempotentButToday ==
  Done(1) /\ Done(2) =>
    /\ text[1] = text[2]
    /\ ret[1].competitionName = ret[2].competitionName
    /\ ret[1].athletes = ret[2].athletes
    /\ ret[1].results = ret[2].results
    /\ date[1] # "" => ret[1].date = ret[2].date
    /\ date[1] = "" => ret[1].date \in Todays /\ ret[2].date = TodayISO(clock)

C4_Witness ==
  /\ Done(1) /\ Done(2)
  /\ clock > FirstDay
  /\ date[1] # ""
  /\ Len(ret[2].athletes) >= 1

\* C5: every invocation that starts reading ends, with a result whose
\* athletes are an array or with the error of a failed read.
C5_Terminates ==
  /\ \A p \in Procs : (pc[p] = "read") ~> (pc[p] \in {"done", "failed"})
  /\ [](\A p \in Procs :
          Done(p) => DOMAIN ret[p].athletes = 1..Len(ret[p].athletes))

C5_Witness ==
  \E p \in Procs :
    /\ Done(p)
    /\ Len(lines[p]) > LookAhead
    /\ Len(ret[p].athletes) >= 1

\* C6: the date is the first date match among the first 10 non-blank lines
\* ("Regional Duals 3/14/2024" gives "3/14/2024"); with no match there, even
\* if a later line holds a date, it is the current date as YYYY-MM-DD.
C6_FirstDateInTenLines ==
  \A p \in Procs :
    Done(p) =>
      IF DatedLines(lines[p]) = {}
        THEN ret[p].date \in Todays /\ IsISODate(ret[p].date)
        ELSE LET line == lines[p][SetMin(DatedLines(lines[p]))]
             IN  /\ ret[p].date = Found[line].date[1]
                 /\ line = "Regional Duals 3/14/2024" =>
                      ret[p].date = "3/14/2024"

C6_Witness ==
  \E p \in Procs :
    /\ Done(p)
    /\ Len(lines[p]) > DateScanLines
    /\ Found[lines[p][DateScanLines + 1]].date # Null
    /\ ret[p].date = TodayISO(clock)

\* C7 as claimed: the date of every result is an ISO calendar date.
C7_DateIsISO == \A p \in Procs : Done(p) => IsISODate(ret[p].date)

\* C7 as amended: the date is an ISO calendar date when it is the current
\* date; a date taken from the text is the matched text as it stands, in the
\* form D/D/Y or D-D-Y, which is not an ISO calendar date.
C7_DateISOOnlyToday ==
  \A p \in Procs :
    Done(p) =>
      IF date[p] = ""
        THEN IsISODate(ret[p].date)
        ELSE /\ ret[p].date = date[p]
             /\ DateAt(ret[p].date, 1) = <<ret[p].date>>
             /\ ~IsISODate(ret[p].date)

C7_Witness ==
  \E p \in Procs :
    Done(p) /\ date[p] = "" /\ ret[p].date = TodayISO(FirstDay + 1)

\* C8 as claimed: every line with a name in the window of a weight marker
\* yields a record with the marker's weight class and the placement, wins,
\* losses and pins of that line.
C8_EveryWindowLineYields ==
  \A p \in Procs :
    PrimaryOver(p) =>
      \A q \in NamedPairs(lines[p]) :
        InSeq(RecordOfPair(lines[p], q), primaryOut[p])

\* C8 as amended: such a line yields that record unless a line visited
\* earlier already gave a record with the same (name, weightClass); the
\* lines "Regional Duals", "152 lbs", "John Smith 5-2 1st pin" give exactly
\* {John Smith, 152 lbs, placement 1, wins 5, losses 2, pins 1}.
C8_WindowLineYieldsUnlessDuplicate ==
  \A p \in Procs :
    /\ PrimaryOver(p) =>
         \A q \in NamedPairs(lines[p]) :
           \/ InSeq(RecordOfPair(lines[p], q), primaryOut[p])
           \/ \E r \in NamedPairs(lines[p]) :
                /\ Before(r, q)
                /\ SameKey(RecordOfPair(lines[p], r), RecordOfPair(lines[p], q))
    /\ Done(p)
       /\ lines[p] = <<"Regional Duals", "152 lbs", "John Smith 5-2 1st pin">>
       => ret[p].athletes =
            <<[name |-> "John Smith", weightClass |-> "152 lbs",
               placement |-> 1, wins |-> 5, losses |-> 2, pins |-> 1,
               takedowns |-> 0]>>

C8_Witness ==
  \E p \in Procs :
    /\ Done(p)
    /\ lines[p] = <<"Regional Duals", "152 lbs", "John Smith 5-2 1st pin">>

\* C9 as claimed: in the fallback pass every line with a name and a
\* standalone number of one to three digits yields a record with that name
\* and the weight class "{number} lbs".
C9_FallbackAnyNumber ==
  \A p \in Procs :
    Done(p) /\ primaryOut[p] = << >> =>
      \A k \in 1..Len(lines[p]) :
        Found[lines[p][k]].name # Null /\ Standalone[lines[p][k]] # {} =>
          \E a \in 1..Len(ret[p].athletes) :
            /\ ret[p].athletes[a].name = Found[lines[p][k]].name[2]
            /\ \E n \in Standalone[lines[p][k]] :
                 ret[p].athletes[a].weightClass = n[1] \o " lbs"

\* C9 as amended: in the fallback pass every line with a name and a run of
\* two or more digits yields one record with that name, the weight class
\* made of the first two or three digits of the first such run and " lbs",
\* and no other data; other lines yield nothing, and "Tournament Sheet",
\* "John Smith 152" give exactly {John Smith, 152 lbs}.
C9_FallbackTwoOrThreeDigits ==
  \A p \in Procs :
    /\ Done(p) /\ primaryOut[p] = << >> =>
         ret[p].athletes = FallbackExpected(lines[p])
    /\ Done(p) /\ lines[p] = <<"Tournament Sheet", "John Smith 152">> =>
         ret[p].athletes =
           <<[name |-> "John Smith", weightClass |-> "152 lbs",
              placement |-> Undefined, wins |-> Undefined,
              losses |-> Undefined, pins |-> Undefined,
              takedowns |-> Undefined]>>

C9_Witness ==
  \E p \in Procs :
    /\ Done(p)
    /\ lines[p] = <<"Tournament Sheet", "John Smith 152">>
    /\ Len(ret[p].athletes) = 1

\* C10: competitionName is the first non-blank line of the text, trimmed,
\* and the default "Wrestling Competition" when the text has no such line.
C10_CompetitionName ==
  \A p \in Procs :
    Done(p) =>
      ret[p].competitionName =
        IF NonBlankRaw(p) = << >> THEN "Wrestling Competition"
        ELSE Trim(NonBlankRaw(p)[1])

C10_Witness ==
  \E p \in Procs :
    /\ Done(p)
    /\ Len(Trim(Split(text[p], "\n")[1])) = 0
    /\ NonBlankRaw(p) # << >>
    /\ NonBlankRaw(p)[1] # ret[p].competitionName


Responded(p) == stage[p] = "responded"

\* the rows of the competitions table made for request p
RowsOf(p) ==
  {k \in 1..Len(competitions) :
     competitions[k].pdfUrl = "/uploads/" \o Filename(p)}

\* C11: when reading or converting the document fails, parsePDF fails with
\* an error whose message carries the message of the cause, and the request
\* is answered with a failure (400, with that message) and no competition
\* row is made for it.
C11_FailureAborts ==
  \A p \in Procs :
    /\ pc[p] = "failed" =>
         \E cause \in ReadErrors :
           /\ EndsWith(err[p], cause)
           /\ err[p] = "Failed to parse PDF file: " \o cause
    /\ pc[p] = "failed" => RowsOf(p) = {}
    /\ Responded(p) /\ pc[p] = "failed" =>
         /\ response[p].status = 400
         /\ response[p].message = "Failed to create competition"
         /\ response[p].error = err[p]

C11_Witness ==
  \E p \in Procs :
    /\ Responded(p)
    /\ pc[p] = "failed"
    /\ \E q \in Procs : RowsOf(q) # {}

DateAlone(ls) ==
  LET ds == {k \in 1..Len(DateLines(ls)) : Found[ls[k]].date # Null}
  IN  IF ds = {} THEN "" ELSE Found[ls[SetMin(ds)]].date[1]

\* the lookahead loop of marker line k (from 0), run from line m to its end
RECURSIVE WindowAlone(_, _, _, _)
WindowAlone(ath, ls, k, m) ==
  IF m < WindowEnd(k, Len(ls))
    THEN WindowAlone(
           WindowPush(ath, ls[m + 1], Found[ls[k + 1]].weight[2] \o " lbs"),
           ls, k, m + 1)
    ELSE ath

\* the primary pass, run from line k (from 0) to its end
RECURSIVE PrimaryAlone(_, _, _)
PrimaryAlone(ath, ls, k) ==
  IF k >= Len(ls) THEN ath
  ELSE PrimaryAlone(
         IF Found[ls[k + 1]].weight # Null
           THEN WindowAlone(ath, ls, k, k + 1) ELSE ath,
         ls, k + 1)

\* the fallback pass, run from line k (from 0) to its end
RECURSIVE FallbackAlone(_, _, _)
FallbackAlone(ath, ls, k) ==
  IF k >= Len(ls) THEN ath
  ELSE FallbackAlone(FallbackPush(ath, ls[k + 1]), ls, k + 1)

\* what parsePDF returns on a text when nothing else runs and the clock
\* shows `now` at the return
RunAlone(txt, now) ==
  LET ls == SplitLines(txt)
      prim == PrimaryAlone(<< >>, ls, 0)
      ath == IF Len(prim) = 0 THEN FallbackAlone(prim, ls, 0) ELSE prim
  IN  [athletes |-> ath,
       competitionName |->
         IF ls = << >> THEN "Wrestling Competition" ELSE Trim(ls[1]),
       date |-> IF DateAlone(ls) # "" THEN DateAlone(ls) ELSE Today[now],
       results |-> ls]

\* C13: under every interleaving of the steps of two extractions, each
\* returns what it returns when run alone on its own document, and fails
\* exactly when its own document cannot be read.
C13_ConcurrentAsAlone ==
  \A p \in Procs :
    /\ Done(p) =>
         /\ request[p].file.readable
         /\ \E now \in ClockDays :
              ret[p] = RunAlone(request[p].file.content, now)
    /\ pc[p] = "failed" => ~request[p].file.readable

C13_Witness ==
  /\ Done(1)
  /\ pc[2] = "fallback"
  /\ i[2] > 0
  /\ lines[1] # lines[2]
  /\ Len(ret[1].athletes) > 0

\* C14: every document that reaches parsePDF through the route has the MIME
\* type application/pdf and a size of at most 10 MB.
C14_OnlyPdfMimeReachesParser ==
  \A p \in Procs :
    pc[p] # "idle" =>
      /\ request[p].file.mimetype = "application/pdf"
      /\ request[p].file.size <= 10 * 1024 * 1024

\* invocation p is at the test of line i of the primary pass
AtLine(p) == pc[p] = "primary" /\ i[p] < Len(lines[p])

\* the step taken is a step of invocation p
Stepped(p) == pc'[p] # pc[p] \/ i'[p] # i[p] \/ j'[p] # j[p]

\* two digits, then any white space, then "lb" in either case, somewhere in s
HasWeightMarker(s) ==
  \E e \in 2..Len(s) :
    /\ Ch(s, e - 1) \in Digit
    /\ Ch(s, e) \in Digit
    /\ \E w \in 0..Len(s) :
         /\ \A k \in 1..w : Ch(s, e + k) \in Space
         /\ ToLower(Ch(s, e + w + 1)) = "l"
         /\ ToLower(Ch(s, e + w + 2)) = "b"

\* C15 as claimed: a line opens a lookahead window exactly when it holds a
\* number of one to three digits, with or without "lb"/"lbs".
C15_AnyShortNumberOpensWindow ==
  [][\A p \in Procs :
       AtLine(p) /\ Stepped(p) =>
         (pc'[p] = "window" <=> Standalone[lines[p][i[p] + 1]] # {})]_vars

\* C15 as amended: a line opens a lookahead window exactly when it holds two
\* digits followed by optional white space and "lb" (in either case); the
\* weight class is the last two or three digits before the suffix and
\* " lbs".  A number without the suffix or of a single digit opens none.
C15_TwoDigitsAndLbOpenWindow ==
  [][\A p \in Procs :
       AtLine(p) /\ Stepped(p) =>
         /\ pc'[p] = "window" <=> HasWeightMarker(lines[p][i[p] + 1])
         /\ pc'[p] = "window" /\ lines[p][i[p] + 1] = "152 lbs" =>
              weightClass'[p] = "152 lbs"
         /\ lines[p][i[p] + 1] \in {"John Smith 152", "John Smith 0th 7 LB"} =>
              pc'[p] = "primary"]_vars

C15_Witness ==
  \E p \in Procs :
    /\ Done(p)
    /\ Len(lines[p]) = 3
    /\ lines[p][1] = "John Smith 0th 7 LB"
    /\ lines[p][2] = "152 lbs"
    /\ lines[p][3] = "John Smith 152"
    /\ Len(primaryOut[p]) = 1

\* C16: a name on any of the 10 lines after a weight marker is captured with
\* the marker's weight class, and a name further on is not captured by it.
C16_TenLineWindow ==
  \A p \in Procs :
    PrimaryOver(p) =>
      \A k, m \in 1..Len(lines[p]) :
        /\ Found[lines[p][k]].weight # Null
        /\ Found[lines[p][m]].name # Null
        /\ k < m /\ m <= k + 10
        => \E a \in 1..Len(primaryOut[p]) :
             /\ primaryOut[p][a].name = Found[lines[p][m]].name[2]
             /\ primaryOut[p][a].weightClass =
                  Found[lines[p][k]].weight[2] \o " lbs"

\* C17: every record of the primary pass has its name from a line inside the
\* lookahead window of a weight marker line before it and its weight class
\* from that marker; a name outside every window gives no record.
C17_AnchoringMandatory ==
  \A p \in Procs :
    PrimaryOver(p) =>
      \A a \in 1..Len(primaryOut[p]) :
        \E q \in NamedPairs(lines[p]) :
          primaryOut[p][a] = RecordOfPair(lines[p], q)

C17_Witness ==
  \E p \in Procs :
    /\ Done(p)
    /\ Len(primaryOut[p]) >= 1
    /\ \E m \in 1..Len(lines[p]) :
         /\ Found[lines[p][m]].name # Null
         /\ \A q \in NamedPairs(lines[p]) : q[2] # m
         /\ \A a \in 1..Len(primaryOut[p]) :
              primaryOut[p][a].name # Found[lines[p][m]].name[2]

\* the pairs that give the same (name, weightClass) as record a
PairsOfKey(ls, a) == {q \in NamedPairs(ls) : SameKey(RecordOfPair(ls, q), a)}

\* the pair of a set the primary pass visits first
FirstPair(Q) == CHOOSE q \in Q : \A r \in Q : r = q \/ Before(q, r)

\* C18: of the window lines that give the same (name, weightClass) only the
\* first gives a record, with the placement, wins, losses and pins of that
\* line, whatever the later lines carry.
C18_FirstOccurrenceKept ==
  \A p \in Procs :
    PrimaryOver(p) =>
      /\ \A a, b \in 1..Len(primaryOut[p]) :
           a < b => ~SameKey(primaryOut[p][a], primaryOut[p][b])
      /\ \A a \in 1..Len(primaryOut[p]) :
           /\ PairsOfKey(lines[p], primaryOut[p][a]) # {}
           /\ primaryOut[p][a] =
                RecordOfPair(lines[p],
                             FirstPair(PairsOfKey(lines[p], primaryOut[p][a])))

C18_Witness ==
  \E p \in Procs :
    /\ Done(p)
    /\ \E q, r \in NamedPairs(lines[p]) :
         /\ Before(q, r)
         /\ SameKey(RecordOfPair(lines[p], q), RecordOfPair(lines[p], r))
         /\ RecordOfPair(lines[p], q).placement = Undefined
         /\ RecordOfPair(lines[p], r).placement # Undefined
         /\ RecordOfPair(lines[p], q) = ret[p].athletes[1]

\* C19 as claimed: the raw lines of a result are the lines of the text that
\* are not blank, in their order, each trimmed.
C19_RawLinesTrimmed ==
  \A p \in Procs :
    Done(p) =>
      /\ Len(ret[p].results) = Len(NonBlankRaw(p))
      /\ \A k \in 1..Len(ret[p].results) :
           ret[p].results[k] = Trim(NonBlankRaw(p)[k])

\* C19 as amended: the raw lines of a result are the lines of the text that
\* are not blank, in their order, each as the text has it: leading and
\* trailing white space stays.
C19_RawLinesAsInText ==
  \A p \in Procs :
    /\ pc[p] \in {"date", "primary", "window", "check", "fallback", "return"}
         => lines[p] = NonBlankRaw(p)
    /\ Done(p) =>
         /\ ret[p].results = NonBlankRaw(p)
         /\ \A k \in 1..Len(ret[p].results) :
              /\ Len(Trim(ret[p].results[k])) > 0
              /\ \A c \in 1..Len(ret[p].results[k]) :
                   Ch(ret[p].results[k], c) # "\n"

C19_Witness ==
  \E p \in Procs :
    /\ Done(p)
    /\ Len(ret[p].results) = 2
    /\ ret[p].results[2] = "  John Smith 7 "
    /\ Len(Split(text[p], "\n")) = 3

\* C20: in every record of every result a placement is an integer >= 1 and
\* wins and losses are integers >= 0, when they are there.
C20_FieldRanges ==
  \A p \in Procs :
    Done(p) =>
      \A a \in 1..Len(ret[p].athletes) :
        /\ ret[p].athletes[a].placement = Undefined
           \/ ret[p].athletes[a].placement >= 1
        /\ ret[p].athletes[a].wins = Undefined
           \/ ret[p].athletes[a].wins >= 0
        /\ ret[p].athletes[a].losses = Undefined
           \/ ret[p].athletes[a].losses >= 0

\* C21 as claimed: in every record of every result, of the primary pass or of
\* the fallback pass, pins is 0 or 1 and takedowns is 0.
C21_PinsAndTakedowns ==
  \A p \in Procs :
    Done(p) =>
      \A a \in 1..Len(ret[p].athletes) :
        /\ ret[p].athletes[a].pins \in {0, 1}
        /\ ret[p].athletes[a].takedowns = 0

\* the pairs of two markers of different weight classes with one name line
\* in the window of each
Overlaps(ls) ==
  {qr \in NamedPairs(ls) \X NamedPairs(ls) :
     /\ qr[1][2] = qr[2][2]
     /\ Found[ls[qr[1][1]]].weight[2] # Found[ls[qr[2][1]]].weight[2]}

\* C22: a name line inside the lookahead windows of two markers of different
\* weight classes gives two records for that name in the result, one under
\* each weight class.
C22_OverlappingWindows ==
  \A p \in Procs :
    Done(p) =>
      \A qr \in Overlaps(lines[p]) :
        /\ \E a \in 1..Len(ret[p].athletes) :
             SameKey(ret[p].athletes[a], RecordOfPair(lines[p], qr[1]))
        /\ \E b \in 1..Len(ret[p].athletes) :
             SameKey(ret[p].athletes[b], RecordOfPair(lines[p], qr[2]))
        /\ ~SameKey(RecordOfPair(lines[p], qr[1]),
                    RecordOfPair(lines[p], qr[2]))

C22_Witness ==
  \E p \in Procs :
    /\ Done(p)
    /\ Overlaps(lines[p]) # {}
    /\ Len(ret[p].athletes) = 2
    /\ ret[p].athletes[1].name = ret[p].athletes[2].name
    /\ ret[p].athletes[1].weightClass = "152 lbs"
    /\ ret[p].athletes[2].weightClass = "160 lbs"

\* request r is a send of newsletter n that has not ended
Sending(r, n) ==
  /\ call[r].kind = "send" /\ call[r].id = n
  /\ at[r] \in {"sendNewsletter", "emails", "mail", "count"}

\* the mailer accepted a mail for newsletter n
Mailed(n) == \E k \in 1..Len(outbox) : outbox[k].id = n

\* C23 as claimed: a newsletter has sentAt set, and counts in
\* getTeamStats.newslettersSent, only if the mailer accepted a mail for it; a
\* send request that failed leaves sentAt unset.
C23_SentOnlyIfMailed ==
  /\ \A n \in NewsletterIds :
       newsletters[n].sentAt # NoDate =>
         Mailed(n) \/ \E r \in Procs : Sending(r, n)
  /\ \A t \in TeamIds :
       NewslettersSent(t) <=
         Cardinality({n \in NewsletterIds :
                        /\ newsletters[n].teamId = t
                        /\ Mailed(n) \/ \E r \in Procs : Sending(r, n)})

\* C24 as claimed: the verify callback reports a user only when storage holds
\* a user with the email whose stored hash matches the password.
C24_LoginOnlyStoredUser ==
  \A r \in Procs :
    verdict[r].called /\ verdict[r].user # "" =>
      \E u \in UserRows :
        /\ u.email = call[r].email
        /\ u.password # ""
        /\ BcryptCompare(call[r].password, u.password)

\* C25 as claimed: GET and PUT /api/teams/:id return or change a team only
\* for its primary coach.
C25_TeamOnlyForItsCoach ==
  /\ \A r \in Procs :
       /\ at[r] = "responded"
       /\ call[r].kind \in {"getTeam", "putTeam"}
       => \A row \in reply[r].teams : row.primaryCoachId = call[r].user
  /\ \A t \in TeamIds :
       teams[t].name \in {TeamRows[t].name,
                          "Team of " \o teams[t].primaryCoachId}

\* C26 as claimed: whatever the add-email requests and their interleaving, no
\* team has more than 256 email addresses.
C26_EmailLimit ==
  \A t \in TeamIds : GetTeamEmailCount(t) <= EmailLimit

\* request r ended in failure: the route answered 500
Failed(r) == at[r] = "responded" /\ reply[r].status = 500

\* C27: recipientCount of a newsletter is written only by a sendNewsletter
\* whose mail the mailer has accepted, with the number of addresses of that
\* mail; a sendNewsletter that finds no address or whose mailer refuses ends in
\* an error and writes nothing, and no mail goes out to an empty list.
C27_RecipientCountAfterMail ==
  /\ [][\A n \in NewsletterIds :
          newsletters'[n].recipientCount # newsletters[n].recipientCount =>
            \E r \in Procs :
              /\ at[r] = "count" /\ at'[r] = "responded"
              /\ newsletter[r].id = n
              /\ newsletters'[n].recipientCount = allEmails[r]
              /\ \E k \in 1..Len(outbox) :
                   outbox[k] = [id |-> n, bcc |-> allEmails[r], by |-> r]]_vars
  /\ [][\A r \in Procs :
          Failed(r)' /\ ~Failed(r) /\ call[r].kind = "send" =>
            /\ \A n \in NewsletterIds :
                 newsletters'[n].recipientCount = newsletters[n].recipientCount
            /\ outbox' = outbox
            /\ SubSeq(reply'[r].error, 1, 27) = "Failed to send newsletter: "]_vars
  /\ [](\A k \in 1..Len(outbox) : outbox[k].bcc > 0)
  /\ [](\A r \in Procs :
          call[r].kind = "send" /\ at[r] = "responded" /\ nextCalls[r] = 1 =>
            \/ Failed(r)
            \/ /\ reply[r].status = 200
               /\ \E k \in 1..Len(outbox) :
                    /\ outbox[k].by = r
                    /\ outbox[k].bcc = allEmails[r])

C27_Witness ==
  \E r \in Procs :
    /\ call[r].kind = "send" /\ at[r] = "responded"
    /\ reply[r].status = 200
    /\ newsletters[call[r].id].recipientCount = EmailLimit
    /\ outbox # << >>

\* C28: for a request with no user the middleware answers 401 and never calls
\* next, so no handler step and no storage operation runs for it; for a
\* request with a user it calls next once and writes no response.
C28_IsAuthenticated ==
  /\ [](\A r \in Procs :
          call[r].kind \in Guarded /\ call[r].user = NoUser =>
            /\ nextCalls[r] = 0
            /\ at[r] \in {"auth", "responded"}
            /\ at[r] = "responded" => reply[r].status = 401)
  /\ [](\A r \in Procs :
          call[r].kind \in Guarded /\ call[r].user # NoUser =>
            nextCalls[r] = IF at[r] = "auth" THEN 0 ELSE 1)
  /\ [][\A r \in Procs :
          at[r] = "auth" /\ at'[r] # "auth" =>
            IF call[r].user = NoUser
              THEN /\ reply'[r].status = 401
                   /\ at'[r] = "responded"
                   /\ <<teams, athleteEmails, newsletters, outbox>>' =
                        <<teams, athleteEmails, newsletters, outbox>>
            ELSE /\ reply'[r] = reply[r]
                 /\ nextCalls'[r] = nextCalls[r] + 1
                 /\ at'[r] = "handler"]_vars

C28_Witness ==
  \E r, q \in Procs :
    /\ call[r].kind = "putTeam" /\ call[r].user = NoUser
    /\ at[r] = "responded" /\ reply[r].status = 401
    /\ teams = TeamRows
    /\ call[q].kind = "putTeam" /\ call[q].user # NoUser
    /\ at[q] = "handler" /\ nextCalls[q] = 1

\* C29: in every record of every result wins is there if and only if losses
\* is there.
C29_WinsIffLosses ==
  \A p \in Procs :
    Done(p) =>
      \A a \in 1..Len(ret[p].athletes) :
        (ret[p].athletes[a].wins = Undefined)
          <=> (ret[p].athletes[a].losses = Undefined)

C29_Witness ==
  \E p \in Procs :
    /\ Done(p)
    /\ Len(ret[p].athletes) = 1
    /\ Found[lines[p][Len(lines[p])]].record # Null
    /\ ret[p].athletes[1].wins = 5
    /\ ret[p].athletes[1].losses = 2
=============================================================================
